---- MODULE Spec2Model ----
(***************************************************************************)
(* A model of test-pylint.py: calculate_average, generate_random_list,     *)
(* print_results, complex_function and the __main__ block.                 *)
(*                                                                         *)
(* Python values are tagged records.  An int is [type |-> "int", val |-> n]*)
(* with n a mathematical integer (Python ints are unbounded).  A float is  *)
(* an IEEE-754 binary64 value [type |-> "float", neg, man, exp] standing   *)
(* for (-1)^neg * man * 2^exp, where man is a natural number written as a  *)
(* sequence of bits, most significant first, of exactly 53 bits (or <<>>   *)
(* for zero).  The exponent range of binary64 (overflow, subnormals) is    *)
(* never approached by the inputs of this model and is not represented.    *)
(***************************************************************************)
EXTENDS Integers, Sequences, FiniteSets

(***************************************************************************)
(* Natural numbers of any size, as bit sequences (most significant first,  *)
(* no leading zero; <<>> is 0).                                            *)
(***************************************************************************)
Zeros(k) == [i \in 1..k |-> 0]

Max2(a, b) == IF a >= b THEN a ELSE b

Min2(a, b) == IF a <= b THEN a ELSE b

Abs(n) == IF n < 0 THEN -n ELSE n

Strip(b) ==
    LET nz == {i \in 1..Len(b) : b[i] = 1}
    IN  IF nz = {} THEN <<>>
        ELSE SubSeq(b, CHOOSE i \in nz : \A j \in nz : i <= j, Len(b))

RECURSIVE BitsOfNat(_)
BitsOfNat(n) == IF n = 0 THEN <<>> ELSE Append(BitsOfNat(n \div 2), n % 2)

RECURSIVE NatOfBits(_)
NatOfBits(b) ==
    IF b = <<>> THEN 0
    ELSE 2 * NatOfBits(SubSeq(b, 1, Len(b) - 1)) + b[Len(b)]

\* -1, 0 or 1 as a < b, a = b or a > b
BigCmp(a, b) ==
    IF Len(a) # Len(b) THEN (IF Len(a) < Len(b) THEN -1 ELSE 1)
    ELSE LET d == {i \in 1..Len(a) : a[i] # b[i]}
         IN  IF d = {} THEN 0
             ELSE LET i == CHOOSE k \in d : \A j \in d : k <= j
                  IN  IF a[i] < b[i] THEN -1 ELSE 1

\* Sums, differences and quotients are computed limb by limb, LimbBits bits
\* to a limb, carrying from the least significant limb up.
LimbBits == 20

LimbBase == 2 ^ LimbBits

PadTo(b, n) == Zeros(n - Len(b)) \o b

LimbCount(n) == (n + LimbBits - 1) \div LimbBits

\* The m limbs of a bit sequence of m * LimbBits bits, most significant first
Limbs(b, m) ==
    [j \in 1..m |-> NatOfBits(SubSeq(b, (j - 1) * LimbBits + 1, j * LimbBits))]

BitsOfLimbs(l, m) ==
    [i \in 1..(m * LimbBits) |->
        (l[(i - 1) \div LimbBits + 1]
            \div (2 ^ (LimbBits - 1 - ((i - 1) % LimbBits)))) % 2]

BigAdd(a, b) ==
    LET m == LimbCount(Max2(Len(a), Len(b)) + 1)
        x == Limbs(PadTo(a, m * LimbBits), m)
        y == Limbs(PadTo(b, m * LimbBits), m)
        c[j \in 1..(m + 1)] ==
            IF j = m + 1 THEN 0 ELSE (x[j] + y[j] + c[j + 1]) \div LimbBase
    IN  Strip(BitsOfLimbs([j \in 1..m |-> (x[j] + y[j] + c[j + 1]) % LimbBase], m))

\* a - b, for a >= b
BigSub(a, b) ==
    LET m == LimbCount(Len(a))
        x == Limbs(PadTo(a, m * LimbBits), m)
        y == Limbs(PadTo(b, m * LimbBits), m)
        br[j \in 1..(m + 1)] ==
            IF j = m + 1 THEN 0
            ELSE IF x[j] - y[j] - br[j + 1] < 0 THEN 1 ELSE 0
    IN  Strip(BitsOfLimbs(
            [j \in 1..m |-> (x[j] - y[j] - br[j + 1] + LimbBase) % LimbBase], m))

\* Quotient and remainder of a by the natural number c, 0 < c < 2 ^ 11
BigDivSmall(a, c) ==
    LET m == LimbCount(Len(a))
        x == Limbs(PadTo(a, m * LimbBits), m)
        r[j \in 0..m] ==
            IF j = 0 THEN 0 ELSE (r[j - 1] * LimbBase + x[j]) % c
    IN  [q |-> Strip(BitsOfLimbs(
                   [j \in 1..m |-> (r[j - 1] * LimbBase + x[j]) \div c], m)),
         r |-> r[m]]

BigShl(a, k) == IF a = <<>> THEN <<>> ELSE a \o Zeros(k)

\* a * k for a natural number k < 2 ^ 10
BigMulSmall(a, k) ==
    LET m == LimbCount(Len(a)) + 1
        x == Limbs(PadTo(a, m * LimbBits), m)
        c[j \in 1..(m + 1)] ==
            IF j = m + 1 THEN 0 ELSE (x[j] * k + c[j + 1]) \div LimbBase
    IN  Strip(BitsOfLimbs([j \in 1..m |-> (x[j] * k + c[j + 1]) % LimbBase], m))

\* a * b, ten bits of b at a time from the least significant end
RECURSIVE BigMul(_, _)
BigMul(a, b) ==
    IF b = <<>> \/ a = <<>> THEN <<>>
    ELSE IF Len(b) <= 10 THEN BigMulSmall(a, NatOfBits(b))
    ELSE BigAdd(BigShl(BigMul(a, Strip(SubSeq(b, 1, Len(b) - 10))), 10),
                BigMulSmall(a, NatOfBits(SubSeq(b, Len(b) - 9, Len(b)))))

(***************************************************************************)
(* Exact dyadic rationals [neg, mag, exp] = (-1)^neg * mag * 2^exp: the    *)
(* real numbers that ints and floats denote, and their exact sums and      *)
(* products before rounding.                                               *)
(***************************************************************************)
Dyadic(neg, mag, exp) ==
    IF mag = <<>> THEN [neg |-> neg, mag |-> <<>>, exp |-> 0]
    ELSE [neg |-> neg, mag |-> mag, exp |-> exp]

DNeg(x) == Dyadic(~x.neg, x.mag, x.exp)

\* -1, 0, 1
DSign(x) == IF x.mag = <<>> THEN 0 ELSE IF x.neg THEN -1 ELSE 1

DAdd(x, y) ==
    LET e == Min2(x.exp, y.exp)
        a == BigShl(x.mag, x.exp - e)
        b == BigShl(y.mag, y.exp - e)
    IN  IF x.mag = <<>> /\ y.mag = <<>> THEN Dyadic(x.neg /\ y.neg, <<>>, 0)
        ELSE IF x.mag = <<>> THEN y
        ELSE IF y.mag = <<>> THEN x
        ELSE IF x.neg = y.neg THEN Dyadic(x.neg, BigAdd(a, b), e)
        ELSE IF BigCmp(a, b) = 0 THEN Dyadic(FALSE, <<>>, 0)
        ELSE IF BigCmp(a, b) > 0 THEN Dyadic(x.neg, BigSub(a, b), e)
        ELSE Dyadic(y.neg, BigSub(b, a), e)

DMul(x, y) ==
    Dyadic(x.neg # y.neg, BigMul(x.mag, y.mag), x.exp + y.exp)

\* sign of x - y
DCmp(x, y) == DSign(DAdd(x, DNeg(y)))

DOfInt(n) == Dyadic(n < 0, BitsOfNat(Abs(n)), 0)

(***************************************************************************)
(* binary64 floats.  Every operation of IEEE-754 arithmetic returns the    *)
(* exact result rounded to the nearest float, ties to the even mantissa.   *)
(***************************************************************************)
Precision == 53

PyInt(n) == [type |-> "int", val |-> n]

PyFloat(neg, man, exp) ==
    [type |-> "float", neg |-> neg, man |-> man, exp |-> exp]

IsInt(v) == v.type = "int"

IsFloat(v) == v.type = "float"

\* The float nearest to (-1)^neg * (mag + t) * 2^exp, where 0 <= t < 1 and
\* sticky says t > 0 (the part of a quotient below its last computed bit).
RoundNearestEven(neg, mag, exp, sticky) ==
    LET n == Len(mag)
    IN  IF mag = <<>> THEN PyFloat(neg, <<>>, 0)
        ELSE IF n <= Precision
        THEN PyFloat(neg, mag \o Zeros(Precision - n), exp - (Precision - n))
        ELSE LET top  == SubSeq(mag, 1, Precision)
                 half == mag[Precision + 1]
                 rest == sticky \/ \E i \in (Precision + 2)..n : mag[i] = 1
                 up   == half = 1 /\ (rest \/ top[Precision] = 1)
                 inc  == IF up THEN BigAdd(top, <<1>>) ELSE top
                 e    == exp + (n - Precision)
             IN  IF Len(inc) > Precision
                 THEN PyFloat(neg, SubSeq(inc, 1, Precision), e + 1)
                 ELSE PyFloat(neg, inc, e)

\* The real number a Python int or float denotes
DOf(v) == IF IsInt(v) THEN DOfInt(v.val) ELSE Dyadic(v.neg, v.man, v.exp)

\* float(n) for an int n, and a float as it is
ToFloat(v) ==
    IF IsFloat(v) THEN v
    ELSE RoundNearestEven(v.val < 0, BitsOfNat(Abs(v.val)), 0, FALSE)

RoundD(x) == RoundNearestEven(x.neg, x.mag, x.exp, FALSE)

FloatAdd(x, y) == RoundD(DAdd(DOf(x), DOf(y)))

FloatSub(x, y) == RoundD(DAdd(DOf(x), DNeg(DOf(y))))

FloatMul(x, y) == RoundD(DMul(DOf(x), DOf(y)))

\* Python's ==, <= on numbers compare the real values exactly
PyEq(a, b) == DCmp(DOf(a), DOf(b)) = 0

PyLe(a, b) == DCmp(DOf(a), DOf(b)) <= 0

PyLt(a, b) == DCmp(DOf(a), DOf(b)) < 0

\* x / c for a number x and an int c # 0, correctly rounded: the quotient
\* of the magnitude, scaled to give more than Precision + 1 bits, by |c|
FloatDivInt(x, c) ==
    LET d == DOf(x)
        k == Precision + 1 + Len(BitsOfNat(Abs(c)))
        dv == BigDivSmall(BigShl(d.mag, k), Abs(c))
        neg == d.neg # (c < 0)
    IN  IF d.mag = <<>> THEN PyFloat(neg, <<>>, 0)
        ELSE RoundNearestEven(neg, dv.q, d.exp - k, dv.r # 0)

(***************************************************************************)
(* Python's arithmetic operators on ints and floats: exact on two ints,    *)
(* and float arithmetic on the operands converted to float otherwise.      *)
(***************************************************************************)
PyAdd(a, b) ==
    IF IsInt(a) /\ IsInt(b) THEN PyInt(a.val + b.val)
    ELSE FloatAdd(ToFloat(a), ToFloat(b))

PySub(a, b) ==
    IF IsInt(a) /\ IsInt(b) THEN PyInt(a.val - b.val)
    ELSE FloatSub(ToFloat(a), ToFloat(b))

PyMul(a, b) ==
    IF IsInt(a) /\ IsInt(b) THEN PyInt(a.val * b.val)
    ELSE FloatMul(ToFloat(a), ToFloat(b))

\* Floor division of ints in place of true division
PyTrueDiv_Floor(a, n) ==
    IF IsInt(a) THEN PyInt(a.val \div n) ELSE FloatDivInt(a, n)

\* a / n for a number a and a positive int n (true division: always a float)
PyTrueDiv(a, n) == FloatDivInt(a, n)

FloatAbs(x) == PyFloat(FALSE, x.man, x.exp)

(***************************************************************************)
(* The builtin sum(numbers), start 0.  Ints are added exactly.  From the   *)
(* first float on the total is a float, and how the later items are added  *)
(* depends on the interpreter: CPython up to 3.11 adds them one by one     *)
(* ("naive"); CPython 3.12 and later adds floats with Neumaier's           *)
(* compensated summation and ints without compensation ("compensated").    *)
(***************************************************************************)
SumImpls == {"naive", "compensated"}

RECURSIVE SumNaive(_, _, _)
SumNaive(numbers, i, result) ==
    IF i > Len(numbers) THEN result
    ELSE SumNaive(numbers, i + 1, PyAdd(result, numbers[i]))

\* The float loop of the compensated sum: f the running total, c the
\* running compensation
RECURSIVE SumCompensated(_, _, _, _)
SumCompensated(numbers, i, f, c) ==
    IF i > Len(numbers)
    THEN IF c.man # <<>> THEN FloatAdd(f, c) ELSE f
    ELSE LET x == numbers[i]
             t == FloatAdd(f, x)
         IN  IF IsFloat(x)
             THEN SumCompensated(numbers, i + 1, t,
                      FloatAdd(c,
                          IF PyLe(FloatAbs(x), FloatAbs(f))
                          THEN FloatAdd(FloatSub(f, t), x)
                          ELSE FloatAdd(FloatSub(x, t), f)))
             ELSE SumCompensated(numbers, i + 1, FloatAdd(f, ToFloat(x)), c)

\* The int loop: the exact sum of the leading ints, then the first float is
\* added to it and the float loop takes over
RECURSIVE SumInts(_, _, _)
SumInts(numbers, i, result) ==
    IF i > Len(numbers) THEN result
    ELSE IF IsInt(numbers[i])
    THEN SumInts(numbers, i + 1, PyAdd(result, numbers[i]))
    ELSE SumCompensated(numbers, i + 1, PyAdd(result, numbers[i]),
                        PyFloat(FALSE, <<>>, 0))

sum(numbers, impl) ==
    IF impl = "naive" THEN SumNaive(numbers, 1, PyInt(0))
    ELSE SumInts(numbers, 1, PyInt(0))

(***************************************************************************)
(* The functions of test-pylint.py                                         *)
(***************************************************************************)
\* The empty case returning the float 0.0
calculate_average_FloatZero(numbers, impl) ==
    IF Len(numbers) = 0 THEN PyFloat(FALSE, <<>>, 0)
    ELSE PyTrueDiv(sum(numbers, impl), Len(numbers))

\* The first item left out of the total
calculate_average_SkipsFirst(numbers, impl) ==
    IF Len(numbers) = 0 THEN PyInt(0)
    ELSE PyTrueDiv(sum(Tail(numbers), impl), Len(numbers))

\* The total divided by one more than the count
calculate_average_CountPlusOne(numbers, impl) ==
    IF Len(numbers) = 0 THEN PyInt(0)
    ELSE PyTrueDiv(sum(numbers, impl), Len(numbers) + 1)

calculate_average(numbers, impl) ==
    LET total == sum(numbers, impl)
        count == Len(numbers)
    IN  IF count = 0 THEN PyInt(0) ELSE PyTrueDiv(total, count)

\* One line of standard output: the literal text of the f-string and the
\* default rendering of the value in its braces.  Python renders ints,
\* floats and lists of them one-to-one (the text reads back as the value),
\* so the rendered text is represented by the value it renders.
Line(label, value) == [label |-> label, value |-> value]

\* The two lines in the other order
print_results_AverageFirst(numbers, average) ==
    << Line("Average: ", average), Line("Numbers: ", numbers) >>

print_results(numbers, average) ==
    << Line("Numbers: ", numbers), Line("Average: ", average) >>

\* c + d for c - d
complex_function_PlusD(a, b, c, d, e, f) ==
    PyAdd(PyAdd(PyAdd(a, b), PyAdd(c, d)), PyMul(e, f))

complex_function(a, b, c, d, e, f) ==
    LET x == PyAdd(a, b)
        y == PySub(c, d)
        z == PyMul(e, f)
        result == PyAdd(PyAdd(x, y), z)
    IN  result

\* One item too many
RangeHasNext_Inclusive(length, i) == i <= length

\* Whether range(length) has another item after i of them
RangeHasNext(length, i) == i < length

\* An empty range of one less than the lower bound going unnoticed
RandintRaises_OffByOne(a, b) == a > b + 1

\* random.randint(a, b) raises ValueError (empty range) when a > b, before
\* it takes anything from the random source
RandintRaises(a, b) == a > b

(***************************************************************************)
(* Bounds of the model and sampled inputs                                  *)
(***************************************************************************)
\* Longest list given to calculate_average, from all lists over ListValues
MaxLen == 3

\* Longest run of one repeated int in the longer lists given to
\* calculate_average, and the largest int in them
MaxRun == 6

MaxRunValue == 5

\* generate_random_list is called with length <= MaxLength and bounds in
\* -MaxBound..MaxBound
MaxLength == 3

MaxBound == 2

\* complex_function is called with ints in -MaxArg..MaxArg besides the
\* literals of the __main__ block
MaxArg == 1

\* The float 0.1 (0x1.999999999999ap-4)
Float01 == FloatDivInt(PyInt(1), 10)

\* The sequence of the end-to-end scenario
ScenarioDraws == <<4, 77, 12, 99, 3, 50, 21, 8, 64, 33>>

\* The upper bound exceeded by one
RandintOutcomes_Above(a, b, drawn) == a..(b + 1)

\* The values randint(a, b) may return, a <= b, after the values `drawn` in
\* the same call: every integer of a..b.  A range wider than any the model
\* calls the generator with on its own is sampled: its two ends at every
\* draw, and the scenario's next value while the draws follow the scenario.
RandintOutcomes(a, b, drawn) ==
    LET i == Len(drawn) + 1
    IN  {v \in a..b :
            \/ b - a <= 2 * MaxBound
            \/ v \in {a, b}
            \/ /\ i <= Len(ScenarioDraws)
               /\ v = ScenarioDraws[i]
               /\ \A j \in 1..(i - 1) : drawn[j] = PyInt(ScenarioDraws[j])}

ListValues == {PyInt(-1), PyInt(0), PyInt(1), PyInt(2), Float01}

RECURSIVE SeqsUpTo(_, _)
SeqsUpTo(S, n) ==
    IF n = 0 THEN {<<>>}
    ELSE LET shorter == SeqsUpTo(S, n - 1)
         IN  shorter \cup {Append(q, v) : q \in {r \in shorter : Len(r) = n - 1}, v \in S}

\* n copies of the int u, then the int w
RunLists ==
    {[i \in 1..(n + 1) |-> IF i <= n THEN PyInt(u) ELSE PyInt(w)] :
        n \in (MaxLen + 1)..MaxRun, u \in 0..MaxRunValue, w \in 0..MaxRunValue}

InputLists == SeqsUpTo(ListValues, MaxLen) \cup RunLists

\* The call in the __main__ block: generate_random_list(10), with the
\* defaults min_value=1, max_value=100
MainLength == 10

DefaultMinValue == 1

DefaultMaxValue == 100

\* The last two literals exchanged
MainComplexArgs_Exchanged == <<PyInt(1), PyInt(2), PyInt(3), PyInt(4), PyInt(6), PyInt(5)>>

MainComplexArgs == <<PyInt(1), PyInt(2), PyInt(3), PyInt(4), PyInt(5), PyInt(6)>>

ComplexArgValues(i) ==
    {MainComplexArgs[i]} \cup {PyInt(n) : n \in (-MaxArg)..MaxArg}

\* The arguments complex_function is called with: ints, and numbers of
\* which some are floats
ComplexArgs ==
    (ComplexArgValues(1) \X ComplexArgValues(2) \X ComplexArgValues(3)
        \X ComplexArgValues(4) \X ComplexArgValues(5) \X ComplexArgValues(6))
    \cup ({Float01, PyInt(2)} \X {Float01, PyInt(-1)} \X {Float01, PyInt(3)}
        \X {Float01, PyInt(1)} \X {Float01, PyInt(5)} \X {Float01, PyInt(-2)})

(***************************************************************************)
(* State                                                                   *)
(***************************************************************************)
PyNone == [type |-> "NoneType"]

PyList(items) == [type |-> "list", items |-> items]

VARIABLES
    entry,           \* what is run: "__main__", or one function called alone
    pc,              \* where control is
    sum_impl,        \* the interpreter's sum algorithm
    args,            \* the arguments of the function called alone
    ret,             \* the value it returned
    exc,             \* the exception that ended the run, "" for none
    gen,             \* the frame of generate_random_list: its parameters
                     \* and the list under construction
    rng,             \* how many values the random source has given
    random_numbers,  \* the globals of the __main__ block
    avg,
    stdout,          \* the lines written to standard output
    calls            \* the calls the __main__ block has made, in order

vars == <<entry, pc, sum_impl, args, ret, exc, gen, rng, random_numbers, avg,
          stdout, calls>>

NoFrame == [length |-> 0, min_value |-> 0, max_value |-> 0, result |-> <<>>]

Frame(length, min_value, max_value) ==
    [length |-> length, min_value |-> min_value, max_value |-> max_value,
     result |-> <<>>]

InitCommon ==
    /\ pc = "call"
    /\ ret = PyNone
    /\ exc = ""
    /\ gen = NoFrame
    /\ rng = 0
    /\ random_numbers = PyNone
    /\ avg = PyNone
    /\ stdout = <<>>
    /\ calls = <<>>

InitMain ==
    /\ entry = "__main__"
    /\ sum_impl \in SumImpls
    /\ args = <<>>
    /\ InitCommon

InitAverage ==
    /\ entry = "calculate_average"
    /\ sum_impl \in SumImpls
    /\ args \in {<<PyList(l)>> : l \in InputLists}
    /\ InitCommon

InitGenerate ==
    /\ entry = "generate_random_list"
    /\ sum_impl = "naive"
    /\ args \in ((-1)..MaxLength) \X ((-MaxBound)..MaxBound) \X ((-MaxBound)..MaxBound)
    /\ InitCommon

InitComplex ==
    /\ entry = "complex_function"
    /\ sum_impl = "naive"
    /\ args \in ComplexArgs
    /\ InitCommon

(***************************************************************************)
(* generate_random_list: the list comprehension draws one value for every  *)
(* item of range(length) and then returns the list                         *)
(***************************************************************************)
\* The comprehension's next iteration: random.randint(min_value, max_value)
\* returns a value, which is appended, or raises ValueError, which ends the
\* call and, uncaught, the run
GenDraw ==
    /\ pc = "generate_random_list"
    /\ RangeHasNext(gen.length, Len(gen.result))
    /\ IF RandintRaises(gen.min_value, gen.max_value)
       THEN /\ pc' = "raised"
            /\ exc' = "ValueError"
            /\ UNCHANGED <<gen, rng>>
       ELSE /\ \E v \in RandintOutcomes(gen.min_value, gen.max_value,
                                        gen.result) :
                  gen' = [gen EXCEPT !.result = Append(@, PyInt(v))]
            /\ rng' = rng + 1
            /\ UNCHANGED <<pc, exc>>
    /\ UNCHANGED <<entry, sum_impl, args, ret, random_numbers, avg, stdout, calls>>

\* range(length) is exhausted: the list is returned, to the assignment of
\* line 34 in the __main__ block
GenReturn ==
    /\ pc = "generate_random_list"
    /\ ~RangeHasNext(gen.length, Len(gen.result))
    /\ IF entry = "__main__"
       THEN /\ random_numbers' = PyList(gen.result)
            /\ pc' = "line35"
            /\ ret' = ret
       ELSE /\ ret' = PyList(gen.result)
            /\ pc' = "done"
            /\ random_numbers' = random_numbers
    /\ UNCHANGED <<entry, sum_impl, args, exc, gen, rng, avg, stdout, calls>>

(***************************************************************************)
(* The __main__ block, lines 33-39                                         *)
(***************************************************************************)
Call(fn, a) == [fn |-> fn, args |-> a]

\* line 34: random_numbers = generate_random_list(10)
MainGenerate ==
    /\ entry = "__main__"
    /\ pc = "call"
    /\ gen' = Frame(MainLength, DefaultMinValue, DefaultMaxValue)
    /\ calls' = Append(calls, Call("generate_random_list", <<PyInt(MainLength)>>))
    /\ pc' = "generate_random_list"
    /\ UNCHANGED <<entry, sum_impl, args, ret, exc, rng, random_numbers, avg, stdout>>

\* line 35: avg = calculate_average(random_numbers)
MainAverage ==
    /\ entry = "__main__"
    /\ pc = "line35"
    /\ avg' = calculate_average(random_numbers.items, sum_impl)
    /\ calls' = Append(calls, Call("calculate_average", <<random_numbers>>))
    /\ pc' = "line36"
    /\ UNCHANGED <<entry, sum_impl, args, ret, exc, gen, rng, random_numbers, stdout>>

\* line 36: print_results(random_numbers, avg)
MainPrint ==
    /\ entry = "__main__"
    /\ pc = "line36"
    /\ stdout' = stdout \o print_results(random_numbers, avg)
    /\ calls' = Append(calls, Call("print_results", <<random_numbers, avg>>))
    /\ pc' = "line39"
    /\ UNCHANGED <<entry, sum_impl, args, ret, exc, gen, rng, random_numbers, avg>>

\* The value of the expression statement of line 39
MainComplexValue ==
    complex_function(MainComplexArgs[1], MainComplexArgs[2], MainComplexArgs[3],
                     MainComplexArgs[4], MainComplexArgs[5], MainComplexArgs[6])

\* line 39: complex_function(1, 2, 3, 4, 5, 6), an expression statement: the
\* value is computed and dropped, and the module ends
MainComplex ==
    /\ entry = "__main__"
    /\ pc = "line39"
    /\ IsInt(MainComplexValue) \/ IsFloat(MainComplexValue)
    /\ calls' = Append(calls, Call("complex_function", MainComplexArgs))
    /\ pc' = "done"
    /\ UNCHANGED <<entry, sum_impl, args, ret, exc, gen, rng, random_numbers, avg, stdout>>

(***************************************************************************)
(* Each function called alone with the arguments args                      *)
(***************************************************************************)
CallAverage ==
    /\ entry = "calculate_average"
    /\ pc = "call"
    /\ ret' = calculate_average(args[1].items, sum_impl)
    /\ pc' = "done"
    /\ UNCHANGED <<entry, sum_impl, args, exc, gen, rng, random_numbers, avg, stdout, calls>>

CallGenerate ==
    /\ entry = "generate_random_list"
    /\ pc = "call"
    /\ gen' = Frame(args[1], args[2], args[3])
    /\ pc' = "generate_random_list"
    /\ UNCHANGED <<entry, sum_impl, args, ret, exc, rng, random_numbers, avg, stdout, calls>>

CallComplex ==
    /\ entry = "complex_function"
    /\ pc = "call"
    /\ ret' = complex_function(args[1], args[2], args[3], args[4], args[5], args[6])
    /\ pc' = "done"
    /\ UNCHANGED <<entry, sum_impl, args, exc, gen, rng, random_numbers, avg, stdout, calls>>

(***************************************************************************)
(* Specifications: the program, and each function called alone             *)
(***************************************************************************)
Init == InitMain

Next == MainGenerate \/ GenDraw \/ GenReturn \/ MainAverage \/ MainPrint \/ MainComplex

Spec == Init /\ [][Next]_vars

NextAverage == CallAverage

AverageSpec == InitAverage /\ [][NextAverage]_vars

NextGenerate == CallGenerate \/ GenDraw \/ GenReturn

GenerateSpec == InitGenerate /\ [][NextGenerate]_vars

NextComplex == CallComplex

ComplexSpec == InitComplex /\ [][NextComplex]_vars

\* calculate_average called alone, and the program
InitAverageOrMain == InitAverage \/ InitMain

NextAverageOrMain == NextAverage \/ Next

AverageOrMainSpec == InitAverageOrMain /\ [][NextAverageOrMain]_vars

(***************************************************************************)
(* Helpers of the properties                                               *)
(***************************************************************************)
Returned(fn) == entry = fn /\ pc = "done"

AllInts(items) == \A i \in 1..Len(items) : IsInt(items[i])

DAbs(x) == Dyadic(FALSE, x.mag, x.exp)

\* r is a float within half a unit in its last place of total / n: no float
\* is nearer to the exact quotient
NearestFloatOfQuotient(r, total, n) ==
    /\ IsFloat(r)
    /\ DCmp(DAbs(DAdd(DMul(DOf(r), DOfInt(n)), DNeg(DOf(total)))),
            Dyadic(FALSE, BitsOfNat(n), r.exp - 1)) <= 0

(***************************************************************************)
(* C1 as claimed: for every non-empty sequence S of numbers,               *)
(* r = calculate_average(S) satisfies r * len(S) = sum(S).  It is stated   *)
(* for the sequences of ints, where sum(S) is exact, and with Python's own *)
(* * and == (with the exact product of the real numbers it fails wherever  *)
(* this one does).                                                         *)
(***************************************************************************)
C1_ExactQuotient ==
    (/\ Returned("calculate_average")
     /\ Len(args[1].items) > 0
     /\ AllInts(args[1].items))
        => PyEq(PyMul(ret, PyInt(Len(args[1].items))), sum(args[1].items, sum_impl))

(***************************************************************************)
(* C1, amended: for every non-empty sequence S of numbers,                 *)
(* calculate_average(S) returns the float nearest to the exact quotient    *)
(* sum(S) / len(S) (true division, not the truncated integer quotient):    *)
(* |r * len(S) - sum(S)| <= len(S) * ulp(r) / 2, where sum(S) is the value *)
(* the builtin sum returns.                                                *)
(***************************************************************************)
C1_NearestFloatOfQuotient ==
    (Returned("calculate_average") /\ Len(args[1].items) > 0)
        => NearestFloatOfQuotient(ret, sum(args[1].items, sum_impl),
                                  Len(args[1].items))

\* A list of ints whose mean is not a float: the result times the length is
\* not the sum
C1_Witness ==
    /\ Returned("calculate_average")
    /\ Len(args[1].items) > 0
    /\ AllInts(args[1].items)
    /\ ~PyEq(PyMul(ret, PyInt(Len(args[1].items))), sum(args[1].items, sum_impl))

(***************************************************************************)
(* C2: calculate_average of the empty sequence returns the int 0 (not the  *)
(* float 0.0) as a normal result: the call ends, with no exception.        *)
(***************************************************************************)
C2_EmptyGivesIntZero ==
    (entry = "calculate_average" /\ args[1].items = <<>>)
        => /\ exc = ""
           /\ pc = "call" => ENABLED CallAverage
           /\ pc = "done" => ret = PyInt(0)

C2_Witness ==
    /\ Returned("calculate_average")
    /\ args[1].items = <<>>
    /\ ret = PyInt(0)

(***************************************************************************)
(* C3: for every length >= 0 and every pair min_value <= max_value,        *)
(* generate_random_list returns (it does not raise) a list of exactly      *)
(* `length` elements, each an int v with min_value <= v <= max_value,      *)
(* whatever the random source draws.                                       *)
(***************************************************************************)
C3_LengthAndRange ==
    (entry = "generate_random_list" /\ args[1] >= 0 /\ args[2] <= args[3])
        => /\ exc = "" /\ pc # "raised"
           /\ pc # "done" => ENABLED NextGenerate
           /\ pc = "done" =>
                /\ ret.type = "list"
                /\ Len(ret.items) = args[1]
                /\ \A i \in 1..Len(ret.items) :
                      /\ IsInt(ret.items[i])
                      /\ args[2] <= ret.items[i].val
                      /\ ret.items[i].val <= args[3]

\* A returned list of the greatest length that holds both bounds
C3_Witness ==
    /\ Returned("generate_random_list")
    /\ args[1] = MaxLength /\ args[2] < args[3]
    /\ Len(ret.items) = MaxLength
    /\ \E i, j \in 1..Len(ret.items) :
          ret.items[i].val = args[2] /\ ret.items[j].val = args[3]

(***************************************************************************)
(* C4: generate_random_list(0, min_value, max_value) returns the empty     *)
(* list for every pair of bounds, min_value > max_value included: no draw  *)
(* is made, no error is raised, the random source is left as it was.       *)
(***************************************************************************)
C4_ZeroLength ==
    (entry = "generate_random_list" /\ args[1] = 0)
        => /\ exc = "" /\ pc # "raised"
           /\ rng = 0
           /\ pc # "done" => ENABLED NextGenerate
           /\ pc = "done" => ret = PyList(<<>>)

C4_Witness ==
    /\ Returned("generate_random_list")
    /\ args[1] = 0 /\ args[2] > args[3]
    /\ ret = PyList(<<>>)
    /\ rng = 0

(***************************************************************************)
(* C8: generate_random_list with length >= 1 and min_value > max_value     *)
(* ends in ValueError at the first draw: nothing was drawn, no list is     *)
(* returned, so no list with an element out of the range is.               *)
(***************************************************************************)
C8_InvalidRangeRaises ==
    (entry = "generate_random_list" /\ args[1] >= 1 /\ args[2] > args[3])
        => /\ pc # "done" /\ ret = PyNone
           /\ gen.result = <<>> /\ rng = 0
           /\ pc # "raised" => (exc = "" /\ ENABLED NextGenerate)
           /\ pc = "raised" => exc = "ValueError"

C8_Witness ==
    /\ entry = "generate_random_list"
    /\ args[1] >= 1 /\ args[2] > args[3]
    /\ pc = "raised" /\ exc = "ValueError"
    /\ ret = PyNone

(***************************************************************************)
(* C5: complex_function(a, b, c, d, e, f) returns (a + b) + (c - d) +      *)
(* (e * f): the integer of that value for ints, the value of that Python   *)
(* expression for numbers in general; complex_function(1, 2, 3, 4, 5, 6)   *)
(* is 32.                                                                  *)
(***************************************************************************)
C5_Combinator ==
    Returned("complex_function")
        => /\ exc = ""
           /\ (\A i \in 1..6 : IsInt(args[i])) =>
                 ret = PyInt((args[1].val + args[2].val)
                             + (args[3].val - args[4].val)
                             + (args[5].val * args[6].val))
           /\ ret = PyAdd(PyAdd(PyAdd(args[1], args[2]), PySub(args[3], args[4])),
                          PyMul(args[5], args[6]))
           /\ args = MainComplexArgs => ret = PyInt(32)

C5_Witness ==
    /\ Returned("complex_function")
    /\ args = <<PyInt(1), PyInt(2), PyInt(3), PyInt(4), PyInt(5), PyInt(6)>>
    /\ ret = PyInt(32)

(***************************************************************************)
(* C6: a run of the main program writes exactly two lines, in this order:  *)
(* "Numbers: " with the generated sequence, then "Average: " with the mean *)
(* of that same sequence; the sequence has exactly 10 elements, each in    *)
(* [1, 100].  When the generator yields [4, 77, 12, 99, 3, 50, 21, 8, 64,  *)
(* 33] the second line carries 37.1.                                       *)
(***************************************************************************)
RECURSIVE IntSum(_)
IntSum(items) ==
    IF items = <<>> THEN 0 ELSE items[1].val + IntSum(Tail(items))

\* The float that the literal 37.1 denotes: 0x1.28ccccccccccdp+5
Float37_1 ==
    PyFloat(FALSE, <<1,0,0,1,0,1,0,0,0,1,1,0,0,1,1,0,0,1,1,0,0,1,1,0,0,1,1,0,0,1,1,0,0,1,1,0,0,1,1,0,0,1,1,0,0,1,1,0,0,1,1,0,1>>, -47)

Printed == pc \in {"line39", "done"}

C6_TwoLines ==
    /\ ~Printed => stdout = <<>>
    /\ Printed =>
         /\ Len(stdout) = 2
         /\ stdout[1].label = "Numbers: " /\ stdout[1].value = random_numbers
         /\ stdout[2].label = "Average: "
         /\ NearestFloatOfQuotient(stdout[2].value,
                PyInt(IntSum(random_numbers.items)), Len(random_numbers.items))
         /\ random_numbers.type = "list"
         /\ Len(random_numbers.items) = 10
         /\ \A i \in 1..Len(random_numbers.items) :
               /\ IsInt(random_numbers.items[i])
               /\ 1 <= random_numbers.items[i].val
               /\ random_numbers.items[i].val <= 100
         /\ random_numbers.items = [i \in 1..10 |-> PyInt(ScenarioDraws[i])]
               => stdout[2].value = Float37_1

C6_Witness ==
    /\ pc = "done"
    /\ stdout = << Line("Numbers: ",
                        PyList(<<PyInt(4), PyInt(77), PyInt(12), PyInt(99), PyInt(3),
                                 PyInt(50), PyInt(21), PyInt(8), PyInt(64), PyInt(33)>>)),
                   Line("Average: ", Float37_1) >>

(***************************************************************************)
(* C7: in every run of the main program the calls happen once each and in  *)
(* the order generate_random_list, calculate_average, print_results,       *)
(* complex_function(1, 2, 3, 4, 5, 6); the last comes after both output    *)
(* lines, its value is kept nowhere and it writes nothing, and the program *)
(* then ends normally: no exception, and a next step from every position   *)
(* but the end (at line 35 the step is the call of calculate_average on a  *)
(* list of ints, which returns for every such list).                       *)
(***************************************************************************)
MainCallOrder ==
    <<"generate_random_list", "calculate_average", "print_results", "complex_function">>

C7_CallOrder ==
    /\ Len(calls) <= 4
    /\ \A i \in 1..Len(calls) : calls[i].fn = MainCallOrder[i]
    /\ exc = "" /\ pc # "raised"
    /\ pc \notin {"done", "line35"} => ENABLED Next
    /\ pc = "line35" => (random_numbers.type = "list" /\ AllInts(random_numbers.items))
    /\ Len(calls) = 4 =>
         /\ pc = "done"
         /\ calls[1].args = <<PyInt(10)>>
         /\ calls[2].args = <<random_numbers>>
         /\ calls[3].args = <<random_numbers, avg>>
         /\ calls[4].args = <<PyInt(1), PyInt(2), PyInt(3), PyInt(4), PyInt(5), PyInt(6)>>
         /\ stdout = << Line("Numbers: ", random_numbers), Line("Average: ", avg) >>
         /\ ret = PyNone
    /\ pc = "done" => Len(calls) = 4

C7_Witness ==
    /\ pc = "done"
    /\ Len(calls) = 4
    /\ calls[4].fn = "complex_function"
    /\ Len(stdout) = 2

(***************************************************************************)
(* C9 as claimed: for every sequence S and every permutation P of S,       *)
(* calculate_average(P) = calculate_average(S), with Python's ==.          *)
(* Checked on the lists of at most MaxLen items.                           *)
(***************************************************************************)
PermutationsOf(s) ==
    {[i \in 1..Len(s) |-> s[f[i]]] :
        f \in {g \in [1..Len(s) -> 1..Len(s)] :
                  \A i, j \in 1..Len(s) : g[i] = g[j] => i = j}}

C9_OrderIrrelevant ==
    (Returned("calculate_average") /\ Len(args[1].items) <= MaxLen)
        => \A p \in PermutationsOf(args[1].items) :
              PyEq(calculate_average(p, sum_impl), ret)

(***************************************************************************)
(* C9, amended: for every sequence S of ints and every permutation P of S, *)
(* calculate_average(P) and calculate_average(S) are the same value.       *)
(* Checked on the lists of at most MaxLen items.                           *)
(***************************************************************************)
C9_OrderIrrelevantForInts ==
    (/\ Returned("calculate_average")
     /\ Len(args[1].items) <= MaxLen
     /\ AllInts(args[1].items))
        => \A p \in PermutationsOf(args[1].items) :
              calculate_average(p, sum_impl) = ret

\* A list of MaxLen ints, no two the same, whose mean is not an integer
C9_Witness ==
    /\ Returned("calculate_average")
    /\ Len(args[1].items) = MaxLen
    /\ AllInts(args[1].items)
    /\ \A i, j \in 1..MaxLen : args[1].items[i] = args[1].items[j] => i = j
    /\ IntSum(args[1].items) % MaxLen # 0
    /\ IsFloat(ret)

(***************************************************************************)
(* C10 as claimed: for every non-empty sequence S,                         *)
(* min(S) <= calculate_average(S) <= max(S); and the average a run of the  *)
(* main program prints lies in [1, 100] and is not 0.                      *)
(***************************************************************************)
ListMin(items) ==
    CHOOSE x \in {items[i] : i \in 1..Len(items)} :
        \A i \in 1..Len(items) : PyLe(x, items[i])

ListMax(items) ==
    CHOOSE x \in {items[i] : i \in 1..Len(items)} :
        \A i \in 1..Len(items) : PyLe(items[i], x)

PrintedAverageInRange ==
    (entry = "__main__" /\ Printed)
        => /\ PyLe(PyInt(1), stdout[2].value)
           /\ PyLe(stdout[2].value, PyInt(100))
           /\ ~PyEq(stdout[2].value, PyInt(0))

C10_MeanBetweenMinAndMax ==
    /\ (Returned("calculate_average") /\ Len(args[1].items) > 0)
          => /\ PyLe(ListMin(args[1].items), ret)
             /\ PyLe(ret, ListMax(args[1].items))
    /\ PrintedAverageInRange

(***************************************************************************)
(* C10, amended: for every non-empty sequence S of ints of magnitude below *)
(* 2**53 (the ints that are floats as they stand),                         *)
(* min(S) <= calculate_average(S) <= max(S); and the average a run of the  *)
(* main program prints lies in [1, 100] and is not 0.                      *)
(***************************************************************************)
AllFloatExactInts(items) ==
    \A i \in 1..Len(items) :
        IsInt(items[i]) /\ Len(BitsOfNat(Abs(items[i].val))) <= Precision

C10_MeanOfIntsBetweenMinAndMax ==
    /\ (/\ Returned("calculate_average")
        /\ Len(args[1].items) > 0
        /\ AllFloatExactInts(args[1].items))
          => /\ PyLe(ListMin(args[1].items), ret)
             /\ PyLe(ret, ListMax(args[1].items))
    /\ PrintedAverageInRange

\* A run of the main program that drew 100 every time and printed 100.0
C10_Witness ==
    /\ entry = "__main__" /\ pc = "done"
    /\ \A i \in 1..Len(random_numbers.items) : random_numbers.items[i] = PyInt(100)
    /\ PyEq(stdout[2].value, PyInt(100))

====
